---- MODULE Spec2Model ----
(***************************************************************************)
(* Roommate expense splitter: the ledger of members and expenses, the      *)
(* balance calculation (calcBalances) and the greedy settlement            *)
(* (simplify), with the handlers of the App component that change the      *)
(* ledger.                                                                 *)
(*                                                                         *)
(* Numbers.  A JavaScript number is an IEEE-754 binary floating-point      *)
(* value and every +, -, * and / rounds its exact result to the nearest    *)
(* representable value, ties to even.  The model keeps that arithmetic     *)
(* with the width of the significand as a parameter (Prec bits; binary64   *)
(* has 53) and the smallest exponent as a parameter (EMin).  A finite      *)
(* number is held as the integer count of 2^-EMin it equals, so 1.0 is     *)
(* Unit == 2^EMin; NaN and the two infinities are values outside the       *)
(* finite range.  The finite values of the model stay far below the        *)
(* infinities, so an infinity is a value that was read (JSON.parse gives   *)
(* it for 1e999), never the overflow of a sum.                             *)
(***************************************************************************)
EXTENDS Integers, Sequences, FiniteSets, TLC

Prec == 11
EMin == 18

Unit == 2^EMin
NaN == 2^30
Infinity == 2^29

IsNaN(x) == x = NaN
IsInf(x) == x = Infinity \/ x = -Infinity

Abs(x) == IF x < 0 THEN -x ELSE x
Max2(a, b) == IF a >= b THEN a ELSE b
Sign(x) == IF x < 0 THEN -1 ELSE 1

\* Number of binary digits of n >= 0 (0 for n = 0).
BitLen(n) == CHOOSE k \in 0..31 : 2^k > n /\ (k = 0 \/ 2^(k-1) <= n)

\* q >= 0 without its d low binary digits, rounded to nearest, ties to even;
\* sticky says that the exact value has nonzero digits below those of q.
RoundShift(q, d, sticky) ==
  IF d = 0 THEN q
  ELSE LET low  == q % (2^d)
           half == 2^(d-1)
           hi   == q \div (2^d)
       IN  IF low > half \/ (low = half /\ (sticky \/ hi % 2 = 1))
           THEN hi + 1 ELSE hi

\* The representable value nearest to the exact value (q + fraction) * 2^sh,
\* q >= 0, the fraction nonzero exactly when sticky: at most Prec significant
\* digits and none below 2^-EMin.
RoundTo(q, sh, sticky) ==
  LET d == Max2(Max2(-sh, BitLen(q) - Prec), 0)
  IN  RoundShift(q, d, sticky) * 2^(d + sh)

\* n = Mant(n) * 2^Expo(n) with Mant(n) odd, for n > 0.
Expo(n) == CHOOSE e \in 0..30 : n % (2^e) = 0 /\ n % (2^(e+1)) # 0
Mant(n) == n \div (2^Expo(n))

FAdd(a, b) ==
  IF IsNaN(a) \/ IsNaN(b) THEN NaN
  ELSE IF IsInf(a) /\ IsInf(b) THEN (IF a = b THEN a ELSE NaN)
  ELSE IF IsInf(a) THEN a
  ELSE IF IsInf(b) THEN b
  ELSE Sign(a + b) * RoundTo(Abs(a + b), 0, FALSE)

FSub(a, b) == IF IsNaN(b) THEN NaN ELSE FAdd(a, -b)

FMul(a, b) ==
  IF IsNaN(a) \/ IsNaN(b) THEN NaN
  ELSE IF IsInf(a) \/ IsInf(b)
       THEN (IF a = 0 \/ b = 0 THEN NaN ELSE Sign(a) * Sign(b) * Infinity)
  ELSE IF a = 0 \/ b = 0 THEN 0
  ELSE Sign(a) * Sign(b) *
       RoundTo(Mant(Abs(a)) * Mant(Abs(b)),
               Expo(Abs(a)) + Expo(Abs(b)) - EMin, FALSE)

\* a / b.  The sign of a zero is not held, so x / 0 is left as NaN;
\* calcBalances divides only by a totalWeight that is not zero.
FDiv(a, b) ==
  IF IsNaN(a) \/ IsNaN(b) \/ b = 0 THEN NaN
  ELSE IF IsInf(a) THEN (IF IsInf(b) THEN NaN ELSE Sign(a) * Sign(b) * Infinity)
  ELSE IF IsInf(b) \/ a = 0 THEN 0
  ELSE LET m1 == Mant(Abs(a))
           m2 == Mant(Abs(b))
           t  == Prec + 2 + Max2(0, BitLen(m2) - BitLen(m1))
           q  == (m1 * 2^t) \div m2
           r  == (m1 * 2^t) % m2
       IN  Sign(a) * Sign(b) *
           RoundTo(q, Expo(Abs(a)) - Expo(Abs(b)) + EMin - t, r # 0)

\* Comparisons: every comparison with NaN is false.
Lt(a, b)  == ~IsNaN(a) /\ ~IsNaN(b) /\ a < b
Gt(a, b)  == ~IsNaN(a) /\ ~IsNaN(b) /\ a > b
Leq(a, b) == ~IsNaN(a) /\ ~IsNaN(b) /\ a <= b

\* Math.max in the place of Math.min: the larger of the two remainders is paid.
MathMax(a, b) == IF IsNaN(a) \/ IsNaN(b) THEN NaN ELSE IF a >= b THEN a ELSE b

\* Math.min: NaN when either is NaN.
MathMin(a, b) == IF IsNaN(a) \/ IsNaN(b) THEN NaN ELSE IF a <= b THEN a ELSE b

\* The decimal literal n / d of the source text: the nearest representable value.
Lit(n, d) == FDiv(n * Unit, d * Unit)

\* A value is truthy unless it is 0, NaN or absent; an absent field (undefined)
\* is held as NaN, which every use in the source treats alike.
Truthy(v) == ~IsNaN(v) /\ v # 0


(***************************************************************************)
(* Identifiers.  An id is a string; the model holds it as a number of      *)
(* 1..NumIds.  uid() is seven base-36 digits of Math.random(): any id,     *)
(* one already in use included, and one that is all decimal digits (an     *)
(* array index as a property key) included: ids up to NumIndexIds stand    *)
(* for those.  NoId is the empty string.                                   *)
(***************************************************************************)
NumIds == 3
NumIndexIds == 1
NoId == 0

Ids == 1..NumIds
IsArrayIndex(id) == id <= NumIndexIds

(***************************************************************************)
(* Records keyed by id (Record<string, number>), held as the sequence of   *)
(* their entries in own-property order: array-index keys ascending, then   *)
(* the other keys in insertion order.                                      *)
(***************************************************************************)
RECURSIVE IndexOfKey(_, _, _)
IndexOfKey(o, id, n) ==
  IF n > Len(o) THEN 0
  ELSE IF o[n].id = id THEN n ELSE IndexOfKey(o, id, n + 1)

HasKey(o, id) == IndexOfKey(o, id, 1) # 0

\* o[id]: undefined (NaN in every arithmetic use) when the key is absent.
GetKey(o, id) == IF HasKey(o, id) THEN o[IndexOfKey(o, id, 1)].amt ELSE NaN

\* Position at which a new key id enters an object whose keys are, in order, keys.
NewKeyPos(keys, id) ==
  IF IsArrayIndex(id)
  THEN 1 + Cardinality({k \in 1..Len(keys) : IsArrayIndex(keys[k]) /\ keys[k] < id})
  ELSE Len(keys) + 1

InsertAt(s, p, it) == SubSeq(s, 1, p - 1) \o <<it>> \o SubSeq(s, p, Len(s))

\* o[id] = v
SetKey(o, id, v) ==
  IF HasKey(o, id)
  THEN [o EXCEPT ![IndexOfKey(o, id, 1)] = [id |-> id, amt |-> v]]
  ELSE InsertAt(o, NewKeyPos([k \in 1..Len(o) |-> o[k].id], id),
                [id |-> id, amt |-> v])

\* Object.fromEntries(members.map(m => [m.id, 0]))
RECURSIVE FromMembers(_, _)
FromMembers(members, n) ==
  IF n = 0 THEN <<>>
  ELSE SetKey(FromMembers(members, n - 1), members[n].id, 0)

(***************************************************************************)
(* calcBalances                                                            *)
(***************************************************************************)
Included(e) == SelectSeq(e.participants, LAMBDA p : p.included)

\* included.reduce((acc, p) => acc + (p.weight || 0), 0)
RECURSIVE SumWeights(_, _)
SumWeights(inc, n) ==
  IF n = 0 THEN 0
  ELSE FAdd(SumWeights(inc, n - 1),
            IF Truthy(inc[n].weight) THEN inc[n].weight ELSE 0)

\* ... || included.length
TotalWeight(inc) ==
  IF Truthy(SumWeights(inc, Len(inc))) THEN SumWeights(inc, Len(inc))
  ELSE Len(inc) * Unit

\* (p.weight || 0) || 1
ShareWeight(p) == IF Truthy(p.weight) THEN p.weight ELSE Unit

\* A share that leaves the participant's weight out: every included participant
\* is debited amount / totalWeight.
ShareUnweighted(e, p, totalWeight) == FDiv(e.amount, totalWeight)

\* e.amount * (w / totalWeight)
Share(e, p, totalWeight) == FMul(e.amount, FDiv(ShareWeight(p), totalWeight))

\* for (const p of included) bal[p.memberId] -= share, over the first n
RECURSIVE DebitShares(_, _, _, _)
DebitShares(bal, e, inc, n) ==
  IF n = 0 THEN bal
  ELSE LET b == DebitShares(bal, e, inc, n - 1)
       IN  SetKey(b, inc[n].memberId,
                  FSub(GetKey(b, inc[n].memberId),
                       Share(e, inc[n], TotalWeight(inc))))

\* bal[e.payerId] += e.amount
CreditPayer(bal, e) == SetKey(bal, e.payerId, FAdd(GetKey(bal, e.payerId), e.amount))

\* if (e.amount <= 0) continue
Skipped(e) == Leq(e.amount, 0)

\* One iteration of the loop over the expenses.
ApplyExpense(bal, e) ==
  IF Skipped(e) THEN bal
  ELSE DebitShares(CreditPayer(bal, e), e, Included(e), Len(Included(e)))

RECURSIVE ApplyExpenses(_, _, _)
ApplyExpenses(bal, expenses, n) ==
  IF n = 0 THEN bal
  ELSE ApplyExpense(ApplyExpenses(bal, expenses, n - 1), expenses[n])

calcBalances(members, expenses) ==
  ApplyExpenses(FromMembers(members, Len(members)), expenses, Len(expenses))

(***************************************************************************)
(* simplify                                                                *)
(***************************************************************************)
eps == Lit(5, 1000)

\* A partition that takes every positive balance for a creditor, the tolerance
\* ignored: the bound on the number of transfers does not hold of it.
CreditorsOverZero(balances) ==
  SelectSeq(balances, LAMBDA b : Gt(b.amt, 0))

\* A partition that takes every negative balance for a debtor, the tolerance
\* ignored.
DebtorsBelowZero(balances) ==
  LET neg == SelectSeq(balances, LAMBDA b : ~Gt(b.amt, eps) /\ Lt(b.amt, 0))
  IN  [k \in 1..Len(neg) |-> [id |-> neg[k].id, amt |-> -neg[k].amt]]

\* A partition that pushes every balance of magnitude over eps to debtors,
\* the creditors too.
DebtorsEitherSign(balances) ==
  LET out == SelectSeq(balances, LAMBDA b : Gt(Abs(b.amt), eps))
  IN  [k \in 1..Len(out) |-> [id |-> out[k].id, amt |-> Abs(out[k].amt)]]

\* The forEach over Object.entries(balances): who is pushed where.
Creditors0(balances) ==
  SelectSeq(balances, LAMBDA b : Gt(b.amt, eps))
Debtors0(balances) ==
  LET neg == SelectSeq(balances, LAMBDA b : ~Gt(b.amt, eps) /\ Lt(b.amt, -eps))
  IN  [k \in 1..Len(neg) |-> [id |-> neg[k].id, amt |-> -neg[k].amt]]

\* Array.prototype.sort((a, b) => b.amt - a.amt): descending, stable.
RECURSIVE InsertDesc(_, _)
InsertDesc(sorted, it) ==
  IF sorted = <<>> THEN <<it>>
  ELSE IF Head(sorted).amt >= it.amt
       THEN <<Head(sorted)>> \o InsertDesc(Tail(sorted), it)
       ELSE <<it>> \o sorted

RECURSIVE SortDesc(_, _)
SortDesc(s, n) ==
  IF n = 0 THEN <<>> ELSE InsertDesc(SortDesc(s, n - 1), s[n])

\* The locals of simplify when the loop is first tested.
SimplifyStart(balances) ==
  [debtors   |-> SortDesc(Debtors0(balances), Len(Debtors0(balances))),
   creditors |-> SortDesc(Creditors0(balances), Len(Creditors0(balances))),
   txns |-> <<>>, i |-> 0, j |-> 0]

\* while (i < debtors.length && j < creditors.length); i and j count from 0
LoopCond(st) == st.i < Len(st.debtors) /\ st.j < Len(st.creditors)

\* An iteration that keeps a cursor until its remainder is zero, the
\* tolerance ignored: a remainder within eps is paid by a transfer of its own.
LoopBodyUntilZero(st) ==
  LET d    == st.debtors[st.i + 1]
      c    == st.creditors[st.j + 1]
      pay  == MathMin(d.amt, c.amt)
      damt == FSub(d.amt, pay)
      camt == FSub(c.amt, pay)
  IN  [debtors   |-> [st.debtors EXCEPT ![st.i + 1].amt = damt],
       creditors |-> [st.creditors EXCEPT ![st.j + 1].amt = camt],
       txns |-> Append(st.txns, [from |-> d.id, to |-> c.id, amount |-> pay]),
       i |-> IF Leq(damt, 0) THEN st.i + 1 ELSE st.i,
       j |-> IF Leq(camt, 0) THEN st.j + 1 ELSE st.j]

\* One iteration of the loop.
LoopBody(st) ==
  LET d    == st.debtors[st.i + 1]
      c    == st.creditors[st.j + 1]
      pay  == MathMin(d.amt, c.amt)
      damt == FSub(d.amt, pay)
      camt == FSub(c.amt, pay)
  IN  [debtors   |-> [st.debtors EXCEPT ![st.i + 1].amt = damt],
       creditors |-> [st.creditors EXCEPT ![st.j + 1].amt = camt],
       txns |-> Append(st.txns, [from |-> d.id, to |-> c.id, amount |-> pay]),
       i |-> IF Leq(damt, eps) THEN st.i + 1 ELSE st.i,
       j |-> IF Leq(camt, eps) THEN st.j + 1 ELSE st.j]

RECURSIVE RunLoop(_)
RunLoop(st) == IF LoopCond(st) THEN RunLoop(LoopBody(st)) ELSE st

simplify(balances) == RunLoop(SimplifyStart(balances)).txns

(***************************************************************************)
(* The App component and its NewExpenseCard.                               *)
(***************************************************************************)
MaxMembers == 3
MaxLedger == 2
MaxSteps == 5

VARIABLES
  members,       \* App: Member[]
  expenses,      \* App: Expense[]
  payerId,       \* NewExpenseCard: id of the payer chosen in the form
  participants,  \* NewExpenseCard: Record<id, ExpenseParticipant>, in key order
  steps,         \* handlers run so far (bounds the exploration)
  bal,           \* calcBalances: its local bal
  cpc,           \* calcBalances: expenses processed so far, -1 before the call
  balances,      \* simplify: its argument
  sst,           \* simplify: its locals
  spc,           \* simplify: "idle", "loop" or "done"
  mail,          \* emailSettlements: its position, the plan, the sends started
  server,        \* /send-email: the requests received and their answers
  store          \* localStorage: the stored snapshot, and the effects to run

appVars == <<members, expenses, payerId, participants, steps>>
calcVars == <<bal, cpc>>
simpVars == <<balances, sst, spc>>
envVars == <<mail, server, store>>
vars == <<members, expenses, payerId, participants, steps,
          bal, cpc, balances, sst, spc, mail, server, store>>

\* String.prototype.trim on a name held as its sequence of characters.
RECURSIVE TrimStart(_)
TrimStart(str) ==
  IF str # <<>> /\ Head(str) = " " THEN TrimStart(Tail(str)) ELSE str
RECURSIVE TrimEnd(_)
TrimEnd(str) ==
  IF str # <<>> /\ str[Len(str)] = " "
  THEN TrimEnd(SubSeq(str, 1, Len(str) - 1)) ELSE str
Trim(str) == TrimEnd(TrimStart(str))

\* What the user may have typed in the name field.
Names == {<<>>, <<" ">>, <<"a">>, <<" ", "a", " ">>}

MemberIds(ms) == {ms[k].id : k \in 1..Len(ms)}

\* members.find(m => m.id !== id)?.id || fallback
RECURSIVE FirstOtherId(_, _, _)
FirstOtherId(ms, id, fallback) ==
  IF ms = <<>> THEN fallback
  ELSE IF Head(ms).id # id THEN Head(ms).id
  ELSE FirstOtherId(Tail(ms), id, fallback)

\* The effect of NewExpenseCard on [members.length]: the participants of the form
\* after it, from the participants before it and the members rendered.
RECURSIVE AddMissing(_, _, _)
AddMissing(parts, ms, n) ==
  IF n = 0 THEN parts
  ELSE LET before == AddMissing(parts, ms, n - 1)
           id == ms[n].id
       IN  IF \E k \in 1..Len(before) : before[k].memberId = id THEN before
           ELSE InsertAt(before,
                         NewKeyPos([k \in 1..Len(before) |-> before[k].memberId], id),
                         [memberId |-> id, included |-> TRUE, weight |-> Unit])

SyncParticipants(parts, ms) ==
  SelectSeq(AddMissing(parts, ms, Len(ms)), LAMBDA p : p.memberId \in MemberIds(ms))

\* if (!payerId && members[0]) setPayerId(members[0].id)
SyncPayer(pid, ms) == IF pid = NoId /\ ms # <<>> THEN ms[1].id ELSE pid

\* One more handler has run.
Step == steps < MaxSteps /\ steps' = steps + 1

\* The render that follows setMembers: the effect runs when members.length changed.
EffectRuns(ms) == Len(ms) # Len(members)

AfterRender(ms) ==
  /\ participants' = IF EffectRuns(ms) THEN SyncParticipants(participants, ms)
                     ELSE participants
  /\ payerId' = IF EffectRuns(ms) THEN SyncPayer(payerId, ms) ELSE payerId

\* addMember with name in the name field; id is what uid() returns.
AddMemberWith(name, id) ==
  /\ Len(members) < MaxMembers
  /\ IF Trim(name) = <<>>
     THEN UNCHANGED <<members, payerId, participants>>
     ELSE /\ members' = Append(members, [id |-> id, name |-> Trim(name)])
          /\ AfterRender(members')
  /\ Step
  /\ UNCHANGED <<expenses, calcVars, simpVars, envVars>>

AddMember == \E name \in Names, id \in Ids : AddMemberWith(name, id)

\* A removal that leaves the expenses as they are.
KeepShares(e, id) == e

\* The expense e after removeMember(id).
WithoutMember(e, id) ==
  [e EXCEPT !.participants = SelectSeq(e.participants, LAMBDA p : p.memberId # id),
            !.payerId = IF e.payerId = id THEN FirstOtherId(members, id, e.payerId)
                        ELSE e.payerId]

\* .filter(e => e.participants.length > 0)
Kept(e) == Len(e.participants) > 0

\* removeMember(id), from the button of the k-th member.
RemoveMemberAt(k) ==
  LET id == members[k].id IN
  /\ members' = SelectSeq(members, LAMBDA m : m.id # id)
  /\ expenses' = SelectSeq([n \in 1..Len(expenses) |-> WithoutMember(expenses[n], id)],
                           Kept)
  /\ AfterRender(members')
  /\ Step
  /\ UNCHANGED <<calcVars, simpVars, envVars>>

RemoveMember == \E k \in 1..Len(members) : RemoveMemberAt(k)

SetPayerId ==
  \E k \in 1..Len(members) :
    /\ payerId' = members[k].id
    /\ Step
    /\ UNCHANGED <<members, expenses, participants, calcVars, simpVars, envVars>>

\* The rows of the form: a member m with participants[m.id] defined.
Rows == {k \in 1..Len(participants) : participants[k].memberId \in MemberIds(members)}

ToggleInclude ==
  \E k \in Rows :
    /\ participants' = [participants EXCEPT ![k].included = ~participants[k].included]
    /\ Step
    /\ UNCHANGED <<members, expenses, payerId, calcVars, simpVars, envVars>>

\* What parseFloat may give for the text of a weight or amount field.
WeightInputs == {NaN, 0, -Unit, Unit, 2 * Unit}

\* isFinite(w) && w > 0 ? w : 1
CleanWeight(w) == IF ~IsNaN(w) /\ Gt(w, 0) THEN w ELSE Unit

\* setWeight from the weight field of a row.  The field is rendered for an included
\* participant in the split mode "weights"; the mode is a button away at any time
\* and is read nowhere else, so it is not held as state.
SetWeight ==
  \E k \in Rows, w \in WeightInputs :
    /\ participants[k].included
    /\ participants' = [participants EXCEPT ![k].weight = CleanWeight(w)]
    /\ Step
    /\ UNCHANGED <<members, expenses, payerId, calcVars, simpVars, envVars>>

AmountInputs == {NaN, 0, 10 * Unit, 90 * Unit}

canSubmit(amt) ==
  /\ ~IsNaN(amt) /\ Gt(amt, 0)
  /\ payerId # NoId
  /\ Len(SelectSeq(participants, LAMBDA p : p.included)) > 0

\* handleAdd, with addExpense, amt being parseFloat of the amount field and id
\* what uid() returns: the form is rendered when there is a member.
HandleAddWith(amt, id) ==
  /\ members # <<>>
  /\ Len(expenses) < MaxLedger
  /\ IF canSubmit(amt)
     THEN expenses' = <<[id |-> id, amount |-> amt, payerId |-> payerId,
                         participants |-> participants]>> \o expenses
     ELSE UNCHANGED expenses
  /\ Step
  /\ UNCHANGED <<members, payerId, participants, calcVars, simpVars, envVars>>

HandleAdd == \E amt \in AmountInputs, id \in Ids : HandleAddWith(amt, id)

\* A delete that drops the newest expense, whatever id it is given.
DropNewest(id) ==
  /\ expenses' = IF expenses = <<>> THEN expenses ELSE Tail(expenses)
  /\ Step
  /\ UNCHANGED <<members, payerId, participants, calcVars, simpVars, envVars>>

\* deleteExpense(id): the button of a row passes the id of its expense.
deleteExpense(id) ==
  /\ expenses' = SelectSeq(expenses, LAMBDA e : e.id # id)
  /\ Step
  /\ UNCHANGED <<members, payerId, participants, calcVars, simpVars, envVars>>

DeleteExpense == \E id \in Ids : deleteExpense(id)

\* resetAll, the confirm answered yes.
ResetAll ==
  /\ members' = <<>>
  /\ expenses' = <<>>
  /\ AfterRender(members')
  /\ Step
  /\ UNCHANGED <<calcVars, simpVars, envVars>>

\* Files the user may pick: what JSON.parse makes of the text.  parses says whether
\* it returns; isArrM, isArrE what Array.isArray finds for the two fields.
Part(id, w, inc) == [memberId |-> id, weight |-> w, included |-> inc]
Files ==
  { [parses |-> FALSE, isArrM |-> FALSE, isArrE |-> FALSE,
     members |-> <<>>, expenses |-> <<>>],
    [parses |-> TRUE, isArrM |-> FALSE, isArrE |-> TRUE,
     members |-> <<>>, expenses |-> <<>>],
    [parses |-> TRUE, isArrM |-> TRUE, isArrE |-> FALSE,
     members |-> <<[id |-> 2, name |-> <<"a">>]>>, expenses |-> <<>>],
    [parses |-> TRUE, isArrM |-> TRUE, isArrE |-> TRUE,
     members |-> <<[id |-> 2, name |-> <<"a">>], [id |-> 3, name |-> <<"a">>]>>,
     expenses |-> <<[id |-> 1, amount |-> 90 * Unit, payerId |-> 2,
                     participants |-> <<Part(2, Unit, TRUE), Part(3, 0, TRUE)>>]>>] }

\* An import that takes the members as soon as they are an array, whatever the
\* expenses are.
ImportMembersFirst(f) ==
  /\ members' = IF f.parses /\ f.isArrM THEN f.members ELSE members
  /\ expenses' = IF f.parses /\ f.isArrM /\ f.isArrE THEN f.expenses ELSE expenses
  /\ AfterRender(members')
  /\ Step
  /\ UNCHANGED <<calcVars, simpVars, envVars>>

\* importJSON with the reader.onload it registers.  The callback reads no state
\* of the component and the read changes none, so the two are one step, taken
\* when the read completes.
importJSONFile(f) ==
  /\ IF f.parses /\ f.isArrM /\ f.isArrE
     THEN /\ members' = f.members
          /\ expenses' = f.expenses
     ELSE UNCHANGED <<members, expenses>>
  /\ AfterRender(members')
  /\ Step
  /\ UNCHANGED <<calcVars, simpVars, envVars>>

importJSON == \E f \in Files : importJSONFile(f)

CalcIdle == /\ bal = <<>> /\ cpc = -1

\* Nothing sent, nothing received, nothing stored, no effect to run.
MailIdle == [plan |-> <<>>, run |-> 0, pos |-> -1, sends |-> <<>>]
ServerIdle == [file |-> "server.js", reqs |-> <<>>]
NoItems == [has |-> FALSE, members |-> <<>>, expenses |-> <<>>]
StoreIdle ==
  [items |-> NoItems, mounted |-> NoItems, queued |-> NoItems, todo |-> <<>>]
EnvIdle == /\ mail = MailIdle /\ server = ServerIdle /\ store = StoreIdle
SimpIdle == /\ balances = <<>> /\ sst = SimplifyStart(<<>>) /\ spc = "idle"

Init ==
  /\ members = <<>>
  /\ expenses = <<>>
  /\ payerId = NoId
  /\ participants = <<>>
  /\ steps = 0
  /\ CalcIdle
  /\ EnvIdle
  /\ SimpIdle

Next ==
  \/ AddMember
  \/ RemoveMember
  \/ SetPayerId
  \/ ToggleInclude
  \/ SetWeight
  \/ HandleAdd
  \/ DeleteExpense
  \/ ResetAll
  \/ importJSON

Spec == Init /\ [][Next]_vars

(***************************************************************************)
(* calcBalances and simplify as called: the loop of calcBalances one       *)
(* expense at a time, the loop of simplify one iteration at a time.        *)
(***************************************************************************)
CalcCall ==
  /\ cpc = -1
  /\ bal' = FromMembers(members, Len(members))
  /\ cpc' = 0
  /\ UNCHANGED <<appVars, envVars, simpVars>>

CalcExpense ==
  /\ cpc >= 0 /\ cpc < Len(expenses)
  /\ bal' = ApplyExpense(bal, expenses[cpc + 1])
  /\ cpc' = cpc + 1
  /\ UNCHANGED <<appVars, envVars, simpVars>>

CalcDone == cpc = Len(expenses)

\* useMemo(() => simplify(balances), [balances]) on what calcBalances returned
Settle ==
  /\ CalcDone /\ spc = "idle"
  /\ balances' = bal
  /\ sst' = SimplifyStart(bal)
  /\ spc' = "loop"
  /\ UNCHANGED <<appVars, envVars, calcVars>>

\* The iterations of the loop that are followed.
MaxTxns == 8

SimplifyCall ==
  /\ cpc = -1 /\ spc = "idle"
  /\ sst' = SimplifyStart(balances)
  /\ spc' = "loop"
  /\ UNCHANGED <<appVars, envVars, calcVars, balances>>

SimplifyIter ==
  /\ spc = "loop" /\ LoopCond(sst)
  /\ Len(sst.txns) < MaxTxns
  /\ sst' = LoopBody(sst)
  /\ UNCHANGED <<appVars, envVars, calcVars, balances, spc>>

SimplifyReturn ==
  /\ spc = "loop" /\ ~LoopCond(sst)
  /\ spc' = "done"
  /\ UNCHANGED <<appVars, envVars, calcVars, balances, sst>>

SimplifyDone == spc = "done"

\* Arguments of calcBalances: any members, and any expenses a stored or imported
\* ledger can hold.
MaxParts == 2

Person(id) == [id |-> id, name |-> <<"a">>]
CalcMembers ==
  {[k \in 1..n |-> Person(k)] : n \in 0..MaxMembers} \cup {<<Person(2), Person(1)>>}

\* A share: included with weight 1, 2, 0, absent or -1, or not included.
ShareKinds ==
  {[weight |-> w, included |-> TRUE] : w \in {Unit, 2 * Unit, 0, NaN, -Unit}}
    \cup {[weight |-> Unit, included |-> FALSE]}

\* The lists of shares of the members 1..n.
ParticipantLists(n) ==
  {[k \in 1..n |-> Part(k, f[k].weight, f[k].included)] : f \in [1..n -> ShareKinds]}

CalcAmounts == {0, 10 * Unit, 90 * Unit}

\* The expenses with n shares.
ExpenseInputs(n) ==
  {[id |-> 1, amount |-> a, payerId |-> p, participants |-> ps] :
     a \in CalcAmounts, p \in Ids, ps \in ParticipantLists(n)}

\* An expense as the form makes it for members 1 and 2, all included at weight 1.
PlainExpenses ==
  {[id |-> 2, amount |-> a, payerId |-> p,
    participants |-> <<Part(1, Unit, TRUE), Part(2, Unit, TRUE)>>] :
     a \in {10 * Unit, 90 * Unit}, p \in {1, 2}}

\* The ledgers whose first expense has n shares.
Ledgers(n) ==
  {<<>>} \cup {<<e>> : e \in ExpenseInputs(n)}
         \cup {<<e, f>> : e \in ExpenseInputs(n), f \in PlainExpenses}

\* The registries of two or three members, under any ids uid() may have given.
ScenarioMembers ==
  {[k \in 1..Len(f) |-> Person(f[k])] :
     f \in {g \in [1..2 -> Ids] \cup [1..3 -> Ids] :
              \A i, j \in 1..Len(g) : i # j => g[i] # g[j]}}

\* The expense the form makes for amount 90, the first member paying and every
\* member included at the default weight.
EqualSplit(ms) ==
  [id |-> 1, amount |-> 90 * Unit, payerId |-> ms[1].id,
   participants |-> [k \in 1..Len(ms) |-> Part(ms[k].id, Unit, TRUE)]]

\* The expense the form makes for amount 30, the first member paying, with
\* weight 1 for the first member and weight 2 for the others.
WeightedSplit(ms) ==
  [id |-> 1, amount |-> 30 * Unit, payerId |-> ms[1].id,
   participants |-> [k \in 1..Len(ms) |->
                       Part(ms[k].id, IF k = 1 THEN Unit ELSE 2 * Unit, TRUE)]]

ScenarioLedgers(ms) == {<<EqualSplit(ms)>>, <<WeightedSplit(ms)>>}

\* An imported expense of members 1 and 2 whose amount was written 1e999.
InfiniteLedgers ==
  {<<[id |-> 1, amount |-> Infinity, payerId |-> p, participants |-> ps]>> :
     p \in {1, 2}, ps \in ParticipantLists(2)}

InitCalc ==
  /\ \/ /\ members \in CalcMembers
        /\ \E n \in 0..MaxParts : expenses \in Ledgers(n)
     \/ /\ members \in ScenarioMembers
        /\ expenses \in ScenarioLedgers(members)
     \/ /\ members = <<Person(1), Person(2)>>
        /\ expenses \in InfiniteLedgers
  /\ payerId = NoId
  /\ participants = <<>>
  /\ steps = 0
  /\ CalcIdle
  /\ EnvIdle
  /\ SimpIdle

NextCalc == CalcCall \/ CalcExpense \/ Settle \/ SimplifyIter \/ SimplifyReturn

SpecCalc == InitCalc /\ [][NextCalc]_vars

\* removeMember and deleteExpense between two renders, from the state the form leaves after the
\* members were added and a scenario ledger was entered; the render that
\* follows computes the balances and the settlement.
InitCascade ==
  /\ members \in ScenarioMembers
  /\ expenses \in ScenarioLedgers(members)
                 \cup {<<[WeightedSplit(members) EXCEPT !.id = 2], EqualSplit(members)>>}
  /\ payerId = members[1].id
  /\ participants = SyncParticipants(<<>>, members)
  /\ steps = 0
  /\ CalcIdle
  /\ EnvIdle
  /\ SimpIdle

RemoveBetweenRenders == cpc = -1 /\ spc = "idle" /\ RemoveMember

DeleteBetweenRenders == cpc = -1 /\ spc = "idle" /\ DeleteExpense

NextCascade ==
  RemoveBetweenRenders \/ DeleteBetweenRenders \/ CalcCall \/ CalcExpense \/ Settle \/ SimplifyIter \/ SimplifyReturn

SpecCascade == InitCascade /\ [][NextCascade]_vars

\* Arguments of simplify: any mapping of up to MaxBalances members to a whole
\* amount, to an amount near the tolerance, or to NaN.
MaxBalances == 4

\* An amount below the tolerance; twice it is above.
Small == Unit \div 256

BalValues ==
  {k * Unit : k \in -2..3} \cup {NaN, Small, 2 * Small, -Small, -(Unit + Small)}

\* The mappings of the members 1..n.
BalanceInputs(n) ==
  {[k \in 1..n |-> [id |-> k, amt |-> f[k]]] : f \in [1..n -> BalValues]}

\* Mappings of two or three members with an infinite balance.
InfiniteInputs ==
  LET values == {Infinity, -Infinity, Unit, -Unit, NaN}
  IN  {b \in {[k \in 1..Len(f) |-> [id |-> k, amt |-> f[k]]] :
               f \in [1..2 -> values] \cup [1..3 -> values]} :
         \E k \in 1..Len(b) : IsInf(b[k].amt)}

InitSimplify ==
  /\ members = <<>>
  /\ expenses = <<>>
  /\ payerId = NoId
  /\ participants = <<>>
  /\ steps = 0
  /\ CalcIdle
  /\ EnvIdle
  /\ balances \in UNION {BalanceInputs(n) : n \in 0..MaxBalances}
                   \cup InfiniteInputs
  /\ sst = SimplifyStart(<<>>)
  /\ spc = "idle"

NextSimplify == SimplifyCall \/ SimplifyIter \/ SimplifyReturn

SpecSimplify == InitSimplify /\ [][NextSimplify]_vars

(***************************************************************************)
(* The variant that asks with prompt() and checks the contributions        *)
(* against the stated total (part_004).  Its members carry an email, its   *)
(* expenses the amounts paid by each member and the ids they are split     *)
(* among.                                                                  *)
(***************************************************************************)

\* What prompt() returns for a name: null on cancel is held as the empty
\* string, the test !name treating both alike.
PromptNames == {<<>>, <<" ">>, <<"a">>}

\* prompt() for the email, after email || "": an address is given.
Emails == {<<"e">>}

\* Date.now().toString(): the clock never runs backwards, and two readings
\* within one millisecond are equal.
DateNow ==
  {i \in Ids : /\ \A k \in 1..Len(members) : members[k].id <= i
               /\ \A n \in 1..Len(expenses) : expenses[n].id <= i}

\* addMember of the variant, the prompts answering name and email.
PromptAddMemberWith(name, email, id) ==
  /\ Len(members) < MaxMembers
  /\ IF name = <<>>
     THEN UNCHANGED members
     ELSE members' = Append(members, [id |-> id, name |-> name, email |-> email])
  /\ Step
  /\ UNCHANGED <<expenses, payerId, participants, calcVars, simpVars, envVars>>

PromptAddMember ==
  \E name \in PromptNames, email \in Emails, id \in DateNow :
    PromptAddMemberWith(name, email, id)

\* Math.round: the nearest integer, halves upwards.
MathRound(v) == IF IsNaN(v) THEN NaN ELSE ((2 * v + Unit) \div (2 * Unit)) * Unit

\* Math.round(x * 100) / 100
RoundCents(v) == FDiv(MathRound(FMul(v, 100 * Unit)), 100 * Unit)

\* a !== b on numbers: NaN differs from everything.
NotSame(a, b) == IsNaN(a) \/ IsNaN(b) \/ a # b

\* Number(prompt(...) || "0") for the total: 0, 1 or not a number.
TotalInputs == {0, Unit, NaN}

\* Number(prompt(...) || "0") for the amount a member paid: 0, 1 or 1.00390625.
PaidInputs == {0, Unit, Unit + Small}

\* members.forEach: paid[m.id] = amt over the first n members.
RECURSIVE PaidRecord(_, _)
PaidRecord(amts, n) ==
  IF n = 0 THEN <<>> ELSE SetKey(PaidRecord(amts, n - 1), members[n].id, amts[n])

\* members.forEach: totalPaid += amt over the first n members.
RECURSIVE TotalPaid(_, _)
TotalPaid(amts, n) == IF n = 0 THEN 0 ELSE FAdd(TotalPaid(amts, n - 1), amts[n])

\* The three early returns of addExpense.
Rejected(total, amts) ==
  \/ members = <<>>
  \/ Leq(total, 0)
  \/ NotSame(RoundCents(TotalPaid(amts, Len(members))), RoundCents(total))

\* addExpense of the variant, the prompts answering total and amts.
PromptAddExpenseWith(total, amts, id) ==
  /\ Len(expenses) < MaxLedger
  /\ IF Rejected(total, amts)
     THEN UNCHANGED expenses
     ELSE expenses' = Append(expenses,
                        [id |-> id, amount |-> total,
                         paid |-> PaidRecord(amts, Len(members)),
                         splitAmong |-> [k \in 1..Len(members) |-> members[k].id]])
  /\ Step
  /\ UNCHANGED <<members, payerId, participants, calcVars, simpVars, envVars>>

PromptAddExpense ==
  \E total \in TotalInputs, amts \in [1..Len(members) -> PaidInputs], id \in DateNow :
    PromptAddExpenseWith(total, amts, id)

\* resetData, confirmed.
ResetData ==
  /\ members' = <<>>
  /\ expenses' = <<>>
  /\ Step
  /\ UNCHANGED <<payerId, participants, calcVars, simpVars, envVars>>

InitPrompt ==
  /\ members = <<>>
  /\ expenses = <<>>
  /\ payerId = NoId
  /\ participants = <<>>
  /\ steps = 0
  /\ CalcIdle
  /\ EnvIdle
  /\ SimpIdle

NextPrompt == PromptAddMember \/ PromptAddExpense \/ ResetData

SpecPrompt == InitPrompt /\ [][NextPrompt]_vars

(***************************************************************************)
(* Settlement notices.  emailSettlements walks the plan in one synchronous *)
(* forEach and calls sendEmail for each transfer whose two members have an *)
(* email address; sendEmail starts a fetch and returns at its first await, *)
(* and what follows the await runs later, once for that fetch, inside its  *)
(* own try/catch.                                                          *)
(***************************************************************************)
MaxSends == 4

Transfer(from, to) == [from |-> from, to |-> to, amount |-> 10 * Unit]

Plans ==
  { <<>>, <<Transfer(2, 1)>>, <<Transfer(2, 1), Transfer(3, 1)>>,
    <<Transfer(3, 1), Transfer(3, 2)>> }

MailMembers ==
  { ms \in [1..3 -> [id : Ids, name : {<<"a">>}, email : {<<>>, <<"e">>}]] :
      \A k \in 1..3 : ms[k].id = k }

\* members.find((m) => m.id === id)?.email, the empty string when undefined.
EmailOf(ms, id) ==
  LET found == SelectSeq(ms, LAMBDA m : m.id = id)
  IN IF found = <<>> THEN <<>> ELSE found[1].email

\* fromMember?.email && toMember?.email
BothHaveEmail(ms, t) == EmailOf(ms, t.from) # <<>> /\ EmailOf(ms, t.to) # <<>>

\* A forEach that starts a send only while no other fetch is in flight.
SendUnlessBusy(sends, run, k, to) ==
  IF \E n \in DOMAIN sends : sends[n].status = "fetching"
  THEN sends
  ELSE Append(sends, [run |-> run, k |-> k, to |-> to, status |-> "fetching"])

\* sendEmail up to its first await: the fetch of transfer k of this run.
sendEmail(sends, run, k, to) ==
  Append(sends, [run |-> run, k |-> k, to |-> to, status |-> "fetching"])

\* The click: an empty plan is answered by the alert, otherwise the forEach
\* starts.  No handler starts while another one is running.
emailSettlements ==
  /\ mail.pos = -1
  /\ Len(mail.sends) + Len(mail.plan) <= MaxSends
  /\ Step
  /\ mail' = IF mail.plan = <<>>
             THEN mail
             ELSE [mail EXCEPT !.run = mail.run + 1, !.pos = 0]
  /\ UNCHANGED <<members, expenses, payerId, participants,
                 calcVars, simpVars, server, store>>

\* One callback of the forEach; after the last one the handler returns.
ForEachSettlement ==
  /\ mail.pos >= 0
  /\ LET k == mail.pos + 1
         t == mail.plan[k]
     IN mail' = [mail EXCEPT
                   !.sends = IF BothHaveEmail(members, t)
                             THEN sendEmail(mail.sends, mail.run, k,
                                            EmailOf(members, t.from))
                             ELSE mail.sends,
                   !.pos = IF k = Len(mail.plan) THEN -1 ELSE k]
  /\ UNCHANGED <<appVars, calcVars, simpVars, server, store>>

\* The rest of sendEmail, after its awaits: the answer had success true
\* ("sent"), or it had not ("failed"), or fetch or res.json() threw and the
\* catch took it ("error").  It runs when no handler is running.
FetchSettles ==
  /\ mail.pos = -1
  /\ \E n \in DOMAIN mail.sends, outcome \in {"sent", "failed", "error"} :
       /\ mail.sends[n].status = "fetching"
       /\ mail' = [mail EXCEPT !.sends[n].status = outcome]
  /\ UNCHANGED <<appVars, calcVars, simpVars, server, store>>

InitMail ==
  /\ members \in MailMembers
  /\ expenses = <<>>
  /\ payerId = NoId
  /\ participants = <<>>
  /\ steps = 0
  /\ CalcIdle
  /\ SimpIdle
  /\ \E plan \in Plans : mail = [MailIdle EXCEPT !.plan = plan]
  /\ server = ServerIdle
  /\ store = StoreIdle

NextMail == emailSettlements \/ ForEachSettlement \/ FetchSettles

SpecMail == InitMail /\ [][NextMail]_vars

(***************************************************************************)
(* The /send-email endpoint of the two backends (server.js, index.js).  A  *)
(* request is the body the JSON parser handed to the handler: each of to,  *)
(* subject and html is truthy or not.  The handler runs to its await of    *)
(* transporter.sendMail; the rest runs when the transport has settled.     *)
(* Requests are served concurrently.                                       *)
(***************************************************************************)
MaxRequests == 3

Bodies == [to : BOOLEAN, subject : BOOLEAN, html : BOOLEAN]

\* !to || !subject || !html
MissingField(body) == ~body.to \/ ~body.subject \/ ~body.html

\* res.status(code).json({ success, error }) appended to what the request
\* has been answered with.
Respond(answers, code, success, error) ==
  Append(answers, [code |-> code, success |-> success, error |-> error])

\* A catch block that logs the error and answers nothing.
LogOnly(file, answers, outcome) ==
  IF outcome = "accepted"
  THEN Respond(answers, 200, TRUE, FALSE)
  ELSE answers

\* After the await: res.json({ success: true }) when sendMail resolved, the
\* catch block when it rejected (status 500 in server.js, 200 in index.js).
AfterSendMail(file, answers, outcome) ==
  IF outcome = "accepted"
  THEN Respond(answers, 200, TRUE, FALSE)
  ELSE Respond(answers, IF file = "server.js" THEN 500 ELSE 200, FALSE, TRUE)

\* The handler up to its await.  server.js answers a body with a missing
\* field at once and returns; otherwise sendMail is called.
PostSendEmail ==
  /\ Len(server.reqs) < MaxRequests
  /\ \E body \in Bodies :
       LET rejected == server.file = "server.js" /\ MissingField(body)
           req == [body |-> body,
                   transport |-> IF rejected THEN "none" ELSE "pending",
                   answers |-> IF rejected
                               THEN Respond(<<>>, 400, FALSE, FALSE)
                               ELSE <<>>]
       IN server' = [server EXCEPT !.reqs = Append(server.reqs, req)]
  /\ UNCHANGED <<appVars, calcVars, simpVars, mail, store>>

\* sendMail settles for one request: the transport accepted the message or
\* it failed.
SendMailSettles ==
  /\ \E n \in DOMAIN server.reqs, outcome \in {"accepted", "failed"} :
       /\ server.reqs[n].transport = "pending"
       /\ server' = [server EXCEPT
                       !.reqs[n].transport = outcome,
                       !.reqs[n].answers =
                          AfterSendMail(server.file, server.reqs[n].answers,
                                        outcome)]
  /\ UNCHANGED <<appVars, calcVars, simpVars, mail, store>>

InitServer ==
  /\ members = <<>>
  /\ expenses = <<>>
  /\ payerId = NoId
  /\ participants = <<>>
  /\ steps = 0
  /\ CalcIdle
  /\ SimpIdle
  /\ mail = MailIdle
  /\ \E file \in {"server.js", "index.js"} :
       server = [ServerIdle EXCEPT !.file = file]
  /\ store = StoreIdle

NextServer == PostSendEmail \/ SendMailSettles

SpecServer == InitServer /\ [][NextServer]_vars

(***************************************************************************)
(* settlements of the prompt variant: the same greedy matching with the    *)
(* tolerance 0.01, over pos and neg in the order of Object.entries, which  *)
(* are not sorted.                                                         *)
(***************************************************************************)
MaxPlanBalances == 3

\* The literal 0.01 of the comparisons.
Tolerance == Lit(1, 100)

\* The forEach over Object.entries(balances)
Pos0(b) ==
  LET over == SelectSeq(b, LAMBDA e : Gt(e.amt, Tolerance))
  IN  [k \in 1..Len(over) |-> [id |-> over[k].id, bal |-> over[k].amt]]
Neg0(b) ==
  LET under == SelectSeq(b, LAMBDA e : ~Gt(e.amt, Tolerance)
                                        /\ Lt(e.amt, -Tolerance))
  IN  [k \in 1..Len(under) |-> [id |-> under[k].id, bal |-> -under[k].amt]]

\* The locals of settlements when the loop is first tested.
SettlementsStart(b) ==
  [pos |-> Pos0(b), neg |-> Neg0(b), owes |-> <<>>, i |-> 0, j |-> 0]

\* while (i < pos.length && j < neg.length)
OwesCond(st) == st.i < Len(st.pos) /\ st.j < Len(st.neg)

\* One iteration of the loop.
OwesBody(st) ==
  LET p    == st.pos[st.i + 1]
      n    == st.neg[st.j + 1]
      pay  == MathMin(p.bal, n.bal)
      pbal == FSub(p.bal, pay)
      nbal == FSub(n.bal, pay)
  IN  [pos  |-> [st.pos EXCEPT ![st.i + 1].bal = pbal],
       neg  |-> [st.neg EXCEPT ![st.j + 1].bal = nbal],
       owes |-> Append(st.owes, [from |-> n.id, to |-> p.id, amount |-> pay]),
       i |-> IF Leq(pbal, Tolerance) THEN st.i + 1 ELSE st.i,
       j |-> IF Leq(nbal, Tolerance) THEN st.j + 1 ELSE st.j]

SettlementsCall ==
  /\ spc = "idle"
  /\ sst' = SettlementsStart(balances)
  /\ spc' = "loop"
  /\ UNCHANGED <<appVars, envVars, calcVars, balances>>

SettlementsIter ==
  /\ spc = "loop" /\ OwesCond(sst)
  /\ sst' = OwesBody(sst)
  /\ UNCHANGED <<appVars, envVars, calcVars, balances, spc>>

SettlementsReturn ==
  /\ spc = "loop" /\ ~OwesCond(sst)
  /\ spc' = "done"
  /\ UNCHANGED <<appVars, envVars, calcVars, balances, sst>>

InitPlan ==
  /\ members = <<>>
  /\ expenses = <<>>
  /\ payerId = NoId
  /\ participants = <<>>
  /\ steps = 0
  /\ CalcIdle
  /\ EnvIdle
  /\ balances \in UNION {BalanceInputs(n) : n \in 0..MaxPlanBalances}
  /\ sst = SettlementsStart(<<>>)
  /\ spc = "idle"

NextPlan == SettlementsCall \/ SettlementsIter \/ SettlementsReturn

SpecPlan == InitPlan /\ [][NextPlan]_vars

(***************************************************************************)
(* The variants that start from useState([]) and load in a mount effect.   *)
(* store.items is what localStorage holds under "members" and "expenses"   *)
(* (has: the keys exist), store.mounted what it held when the app started, *)
(* store.queued the state updates the effects have called for, store.todo  *)
(* the effects still to run after the current render.  The effects of a    *)
(* render read the members and expenses of that render.  After the first   *)
(* render React runs the load effect and then the save effect; a           *)
(* development build in StrictMode runs the two a second time before it    *)
(* renders again.                                                          *)
(***************************************************************************)
MaxMounts == 2

Snapshots ==
  {NoItems} \cup
  UNION {{[has |-> TRUE, members |-> ms, expenses |-> es] :
            es \in {<<>>, <<EqualSplit(ms)>>}} : ms \in ScenarioMembers}
  \cup {[has |-> TRUE, members |-> <<>>, expenses |-> <<>>]}

\* The effects after the first render, run n times over.
RECURSIVE MountEffects(_)
MountEffects(n) ==
  IF n = 0 THEN <<>> ELSE <<"load", "save">> \o MountEffects(n - 1)

\* if (savedMembers) setMembers(JSON.parse(savedMembers)), and the same for
\* expenses: a stored string, "[]" too, is truthy.
LoadEffect ==
  /\ store.todo # <<>> /\ Head(store.todo) = "load"
  /\ store' = [store EXCEPT
                 !.queued = IF store.items.has
                            THEN store.items ELSE store.queued,
                 !.todo = Tail(store.todo)]
  /\ UNCHANGED <<appVars, calcVars, simpVars, mail, server>>

\* localStorage.setItem of the members and expenses of this render
SaveEffect ==
  /\ store.todo # <<>> /\ Head(store.todo) = "save"
  /\ store' = [store EXCEPT
                 !.items = [has |-> TRUE, members |-> members,
                            expenses |-> expenses],
                 !.todo = Tail(store.todo)]
  /\ UNCHANGED <<appVars, calcVars, simpVars, mail, server>>

\* The render the queued updates cause: JSON.parse gave new arrays, so the
\* dependencies of the save effect have changed and it runs again.
Rerender ==
  /\ store.todo = <<>> /\ store.queued.has
  /\ members' = store.queued.members
  /\ expenses' = store.queued.expenses
  /\ store' = [store EXCEPT !.queued = NoItems, !.todo = <<"save">>]
  /\ UNCHANGED <<payerId, participants, steps, calcVars, simpVars, mail, server>>

InitStore ==
  /\ members = <<>>
  /\ expenses = <<>>
  /\ payerId = NoId
  /\ participants = <<>>
  /\ steps = 0
  /\ CalcIdle
  /\ SimpIdle
  /\ mail = MailIdle
  /\ server = ServerIdle
  /\ \E snap \in Snapshots, n \in 1..MaxMounts :
       store = [items |-> snap, mounted |-> snap, queued |-> NoItems,
                todo |-> MountEffects(n)]

NextStore == LoadEffect \/ SaveEffect \/ Rerender

SpecStore == InitStore /\ [][NextStore]_vars

\* ---------------------------------------------------------------------------
\* Properties
\* ---------------------------------------------------------------------------

\* The exact sum of the amounts of the first n entries (NaN when one is NaN).
RECURSIVE SumAmt(_, _)
SumAmt(o, n) ==
  IF n = 0 THEN 0
  ELSE IF IsNaN(o[n].amt) \/ IsNaN(SumAmt(o, n - 1)) THEN NaN
  ELSE SumAmt(o, n - 1) + o[n].amt

BalSum(o) == SumAmt(o, Len(o))

\* One minor currency unit, 0.01.
MinorUnit == Lit(1, 100)

\* Every payer and every share of the expenses es names a member of ms.
RefsExist(ms, es) ==
  \A n \in 1..Len(es) :
    /\ es[n].payerId \in MemberIds(ms)
    /\ \A k \in 1..Len(es[n].participants) :
         es[n].participants[k].memberId \in MemberIds(ms)

\* C1: for every list of members and every ledger whose expenses name only
\* members, the balances calcBalances returns sum to zero within one minor
\* unit.
C1_BalancesSumToZero ==
  (CalcDone /\ RefsExist(members, expenses))
    => (~IsNaN(BalSum(bal)) /\ Abs(BalSum(bal)) <= MinorUnit)

\* C7: an expense that names only members and has no included participant, or
\* amount zero, leaves every balance as it was when calcBalances processes it.
C7_NoShareNoChange ==
  [][(/\ cpc >= 0 /\ cpc < Len(expenses) /\ cpc' = cpc + 1
      /\ RefsExist(members, expenses)
      /\ \/ Included(expenses[cpc + 1]) = <<>>
         \/ expenses[cpc + 1].amount = 0)
       => bal' = bal]_vars

\* The expense e with every absent, zero or negative weight replaced by 1.
WithDefaultWeights(e) ==
  [e EXCEPT !.participants =
     [k \in 1..Len(e.participants) |->
        [e.participants[k] EXCEPT !.weight = CleanWeight(e.participants[k].weight)]]]

\* C8: calcBalances processes an expense that names only members as if every
\* absent, zero or negative weight were 1, in the participant's share and in
\* the total weight alike.
C8_NonPositiveWeightIsOne ==
  [][(cpc >= 0 /\ cpc < Len(expenses) /\ cpc' = cpc + 1
        /\ RefsExist(members, expenses))
       => bal' = ApplyExpense(bal, WithDefaultWeights(expenses[cpc + 1]))]_vars

\* An expense of a positive whole amount with an included participant and
\* positive weights only.
WellFormed(e) ==
  /\ ~IsNaN(e.amount) /\ e.amount > 0 /\ e.amount % Unit = 0
  /\ Included(e) # <<>>
  /\ \A k \in 1..Len(e.participants) :
       ~IsNaN(e.participants[k].weight) /\ e.participants[k].weight > 0

\* C9: with whole amounts, well-formed expenses and no dangling reference the
\* balances sum to exactly zero.
C9_WholeAmountsExactZero ==
  (/\ CalcDone /\ RefsExist(members, expenses)
   /\ \A n \in 1..Len(expenses) : WellFormed(expenses[n]))
    => BalSum(bal) = 0

\* What id has paid less what id has received in the first n transfers.
RECURSIVE Paid(_, _, _)
Paid(txns, id, n) ==
  IF n = 0 THEN 0
  ELSE Paid(txns, id, n - 1)
         + (IF txns[n].from = id THEN txns[n].amount ELSE 0)
         - (IF txns[n].to = id THEN txns[n].amount ELSE 0)

\* The balance of the k-th entry of b once the transfers are paid.
AfterTransfers(b, txns, k) == b[k].amt + Paid(txns, b[k].id, Len(txns))

\* Paying the transfers leaves every balance of b within eps of zero.
Settled(b, txns) ==
  \A k \in 1..Len(b) :
    /\ ~IsNaN(b[k].amt)
    /\ Abs(AfterTransfers(b, txns, k)) <= eps

\* Finite balances that sum to exactly zero.
ZeroSum(b) ==
  /\ \A k \in 1..Len(b) : ~IsNaN(b[k].amt)
  /\ BalSum(b) = 0

\* C2: for balances that sum to zero, paying the transfers simplify returns
\* (from pays amount to to) leaves every balance within eps of zero.
C2_TransfersSettle ==
  (SimplifyDone /\ ZeroSum(balances)) => Settled(balances, sst.txns)

\* The exact sum of the amounts of the first n transfers.
RECURSIVE TxnSum(_, _)
TxnSum(txns, n) == IF n = 0 THEN 0 ELSE TxnSum(txns, n - 1) + txns[n].amount

\* The exact sum of the positive balances among the first n entries of b.
RECURSIVE PosSum(_, _)
PosSum(b, n) ==
  IF n = 0 THEN 0
  ELSE PosSum(b, n - 1) + (IF b[n].amt > 0 THEN b[n].amt ELSE 0)

\* The exact sum of the magnitudes of the negative balances among the first n.
RECURSIVE NegSum(_, _)
NegSum(b, n) ==
  IF n = 0 THEN 0
  ELSE NegSum(b, n - 1) + (IF b[n].amt < 0 THEN -b[n].amt ELSE 0)

\* C3: for balances that sum to zero, the amounts of the transfers simplify
\* returns add up, within eps, to the sum of the positive balances, which is
\* the sum of the magnitudes of the negative balances.
C3_TransferTotal ==
  (SimplifyDone /\ ZeroSum(balances))
    => /\ PosSum(balances, Len(balances)) = NegSum(balances, Len(balances))
       /\ Abs(TxnSum(sst.txns, Len(sst.txns)) - PosSum(balances, Len(balances))) <= eps

\* The number of entries of b whose magnitude exceeds eps.
Unsettled(b) ==
  Cardinality({k \in 1..Len(b) : Gt(b[k].amt, eps) \/ Lt(b[k].amt, -eps)})

C5_NoDanglingMember == RefsExist(members, expenses)

\* C6: removeMember(id) on a ledger whose expenses all have an included
\* participant removes the member, leaves no share of id, and leaves no
\* expense without an included participant.
C6_RemoveMemberCascade ==
  [][\A k \in 1..Len(members) :
       (/\ RemoveMemberAt(k)
        /\ \A n \in 1..Len(expenses) : Included(expenses[n]) # <<>>)
         => /\ members[k].id \notin MemberIds(members')
            /\ \A n \in 1..Len(expenses') :
                 /\ Included(expenses'[n]) # <<>>
                 /\ \A q \in 1..Len(expenses'[n].participants) :
                      expenses'[n].participants[q].memberId # members[k].id]_vars

\* C11: with members A, B, C and one expense of 90 paid by A, all three
\* included at weight 1, calcBalances gives A: 60, B: -30, C: -30 and simplify
\* gives exactly the two transfers B pays A 30 and C pays A 30.
C11_EqualSplit ==
  (Len(members) = 3 /\ expenses = <<EqualSplit(members)>> /\ cpc = 1)
    => LET A == members[1].id
           B == members[2].id
           C == members[3].id
       IN  /\ Len(bal) = 3
           /\ GetKey(bal, A) = 60 * Unit
           /\ GetKey(bal, B) = -30 * Unit
           /\ GetKey(bal, C) = -30 * Unit
           /\ SimplifyDone =>
                /\ Len(sst.txns) = 2
                /\ {sst.txns[1], sst.txns[2]} =
                     {[from |-> B, to |-> A, amount |-> 30 * Unit],
                      [from |-> C, to |-> A, amount |-> 30 * Unit]}

C11_Witness ==
  /\ Len(members) = 3 /\ expenses = <<EqualSplit(members)>>
  /\ SimplifyDone /\ Len(sst.txns) = 2
  /\ sst.txns[1].from = members[3].id

\* C12: with members A (weight 1) and B (weight 2), both included, and one
\* expense of 30 paid by A, A is debited 10 and B 20, calcBalances gives
\* A: 20, B: -20 and simplify gives the single transfer B pays A 20.
C12_WeightedSplit ==
  (Len(members) = 2 /\ expenses = <<WeightedSplit(members)>> /\ cpc = 1)
    => LET A   == members[1].id
           B   == members[2].id
           e   == expenses[1]
           inc == Included(e)
       IN  /\ Share(e, inc[1], TotalWeight(inc)) = 10 * Unit
           /\ Share(e, inc[2], TotalWeight(inc)) = 20 * Unit
           /\ Len(bal) = 2
           /\ GetKey(bal, A) = 20 * Unit
           /\ GetKey(bal, B) = -20 * Unit
           /\ SimplifyDone =>
                sst.txns = <<[from |-> B, to |-> A, amount |-> 20 * Unit]>>

C12_Witness ==
  /\ Len(members) = 2 /\ expenses = <<WeightedSplit(members)>>
  /\ SimplifyDone /\ Len(sst.txns) = 1

\* The expense e without the shares of member id, all else as it was.
SharesDropped(e, id) ==
  [e EXCEPT !.participants = SelectSeq(e.participants, LAMBDA p : p.memberId # id)]

\* Member id is an included participant of e, is not its payer, and e has
\* another included participant.
IncludedNotPayer(e, id) ==
  /\ e.payerId # id
  /\ \E q \in 1..Len(e.participants) :
       e.participants[q].memberId = id /\ e.participants[q].included
  /\ \E q \in 1..Len(e.participants) :
       e.participants[q].memberId # id /\ e.participants[q].included

\* C13: removeMember(id) keeps every expense of which id is an included
\* participant but not the payer and which has other included participants,
\* with its amount, its payer and its remaining shares; for 90 paid by A among
\* A, B, C and C removed, the balances computed afterwards are A: 45, B: -45.
C13_RemoveKeepsExpense ==
  [][\A k \in 1..Len(members) :
       RemoveMemberAt(k) =>
         /\ \A n \in 1..Len(expenses) :
              IncludedNotPayer(expenses[n], members[k].id)
                => \E m \in 1..Len(expenses') :
                     expenses'[m] = SharesDropped(expenses[n], members[k].id)
         /\ (Len(members) = 3 /\ k = 3 /\ expenses = <<EqualSplit(members)>>)
              => LET after == calcBalances(members', expenses')
                 IN  /\ Len(after) = 2
                     /\ expenses'[1].amount = 90 * Unit
                     /\ GetKey(after, members[1].id) = 45 * Unit
                     /\ GetKey(after, members[2].id) = -45 * Unit]_vars

C13_Witness ==
  /\ steps = 1 /\ Len(members) = 2 /\ CalcDone
  /\ Len(expenses) = 1 /\ expenses[1].amount = 90 * Unit
  /\ expenses[1].payerId = members[1].id
  /\ Len(Included(expenses[1])) = 2
  /\ GetKey(bal, members[1].id) = 45 * Unit
  /\ GetKey(bal, members[2].id) = -45 * Unit

\* C14: with no members or no expenses, calcBalances returns a mapping that is
\* empty or all zeros and simplify returns no transfer.
C14_EmptyInputs ==
  (CalcDone /\ (members = <<>> \/ expenses = <<>>))
    => /\ \A k \in 1..Len(bal) : bal[k].amt = 0
       /\ SimplifyDone => sst.txns = <<>>

\* C15: handleAdd adds an expense only if every member id it names is in the
\* registry, its amount is not negative and a participant is included;
\* otherwise the ledger is unchanged.
C15_AddValidated ==
  [][\A amt \in AmountInputs, id \in Ids :
       HandleAddWith(amt, id) =>
         \/ expenses' = expenses
         \/ /\ expenses' = <<expenses'[1]>> \o expenses
            /\ RefsExist(members, <<expenses'[1]>>)
            /\ ~IsNaN(expenses'[1].amount) /\ expenses'[1].amount >= 0
            /\ Included(expenses'[1]) # <<>>]_vars

\* C16: addMember with a name that is empty once trimmed leaves the registry
\* unchanged; with any other name it appends exactly one member and leaves the
\* existing members and the expenses unchanged.
C16_AddMemberValidated ==
  [][\A name \in PromptNames, email \in Emails, id \in Ids :
       PromptAddMemberWith(name, email, id) =>
         /\ expenses' = expenses
         /\ IF Trim(name) = <<>>
            THEN members' = members
            ELSE /\ Len(members') = Len(members) + 1
                 /\ SubSeq(members', 1, Len(members)) = members]_vars

\* The ids of the records of a sequence.
IdsOf(recs) == {recs[k].id : k \in 1..Len(recs)}

\* C17: every add gives its record an id that no existing record of the same
\* collection has, so that member ids stay pairwise distinct and expense ids
\* stay pairwise distinct.
C17_FreshIds ==
  [][/\ \A name \in Names, id \in Ids :
          (AddMemberWith(name, id) /\ members' # members) => id \notin IdsOf(members)
     /\ \A amt \in AmountInputs, id \in Ids :
          (HandleAddWith(amt, id) /\ expenses' # expenses) => id \notin IdsOf(expenses)]_vars

\* C18: importJSON replaces members and expenses by those of the file when the
\* file parses and holds both as arrays, and leaves both unchanged otherwise.
C18_ImportAllOrNothing ==
  [][\A f \in Files :
       importJSONFile(f) =>
         IF f.parses /\ f.isArrM /\ f.isArrE
         THEN members' = f.members /\ expenses' = f.expenses
         ELSE members' = members /\ expenses' = expenses]_vars

C18_Witness ==
  /\ steps >= 2
  /\ \E f \in Files : f.expenses # <<>> /\ members = f.members /\ expenses = f.expenses

RECURSIVE ExactSum(_, _)
ExactSum(amts, n) == IF n = 0 THEN 0 ELSE ExactSum(amts, n - 1) + amts[n]

\* C20: the variant that checks the contributions against the stated total
\* adds an expense only when the contributions as entered add up to exactly
\* the total.
C20_ExactContributionSum ==
  [][\A total \in TotalInputs, amts \in [1..Len(members) -> PaidInputs], id \in Ids :
       (PromptAddExpenseWith(total, amts, id) /\ expenses' # expenses)
         => /\ ~IsNaN(total)
            /\ ExactSum(amts, Len(members)) = total]_vars

\* The sends started for transfer k of the plan by the run-th click.
SendsFor(run, k) ==
  {n \in DOMAIN mail.sends : mail.sends[n].run = run /\ mail.sends[n].k = k}

\* The forEach of that click has passed transfer k.
Passed(run, k) == run < mail.run \/ mail.pos = -1 \/ k <= mail.pos

\* C21: a send that fails stops no other send.  For every click and every
\* transfer of the plan, whatever has become of the other sends, the
\* transfer has at most one send, and once the forEach has passed it, it has
\* exactly one when both of its members have an email address and none
\* otherwise; a send that has failed is not started again.
C21_IndependentSends ==
  \A run \in 1..mail.run, k \in 1..Len(mail.plan) :
    /\ Cardinality(SendsFor(run, k)) <= 1
    /\ Passed(run, k) =>
         Cardinality(SendsFor(run, k)) =
           IF BothHaveEmail(members, mail.plan[k]) THEN 1 ELSE 0

\* The first send of a click has failed and the second one has been accepted.
C21_Witness ==
  /\ mail.pos = -1
  /\ \E a, b \in DOMAIN mail.sends :
       /\ mail.sends[a].run = mail.sends[b].run
       /\ mail.sends[a].k < mail.sends[b].k
       /\ mail.sends[a].status \in {"failed", "error"}
       /\ mail.sends[b].status = "sent"

\* C22: /send-email answers each request exactly once, with a success flag.
\* A request is never answered twice, and it is answered once as soon as it
\* is not waiting for the transport; success is true only when the transport
\* accepted the message; when the transport failed the answer has success
\* false and an error; in server.js a body without to, subject or html is
\* answered with success false and sendMail is not called for it.
C22_AnsweredOnce ==
  \A n \in DOMAIN server.reqs :
    LET req == server.reqs[n]
    IN /\ Len(req.answers) <= 1
       /\ req.transport # "pending" => Len(req.answers) = 1
       /\ \A a \in DOMAIN req.answers :
            /\ req.answers[a].success \in BOOLEAN
            /\ req.answers[a].success => req.transport = "accepted"
       /\ req.transport = "failed" =>
            /\ ~req.answers[1].success
            /\ req.answers[1].error
       /\ server.file = "server.js" /\ MissingField(req.body) =>
            /\ req.transport = "none"
            /\ ~req.answers[1].success

\* A request was answered with success false after the transport failed, and
\* a request received after it was answered with success true; in server.js
\* a request without a field was answered too.
C22_Witness ==
  /\ Len(server.reqs) = 3
  /\ server.reqs[1].transport = "failed"
  /\ Len(server.reqs[1].answers) = 1
  /\ server.reqs[2].transport = "accepted"
  /\ server.reqs[2].answers[1].success
  /\ MissingField(server.reqs[3].body)
  /\ Len(server.reqs[3].answers) = 1

\* The balances sum to zero within one minor unit, none of them NaN.
SumsToZero(b) ==
  /\ \A k \in 1..Len(b) : ~IsNaN(b[k].amt)
  /\ Abs(BalSum(b)) <= MinorUnit

\* C23: removeMember keeps the balances summing to zero.  From every state
\* whose balances sum to zero, the balances calcBalances computes after
\* removeMember(id) sum to zero too, the removed member being a payer or the
\* only included participant of an expense or not.
C23_RemoveKeepsZeroSum ==
  [][\A k \in 1..Len(members) :
       (/\ RemoveMemberAt(k)
        /\ SumsToZero(calcBalances(members, expenses)))
         => SumsToZero(calcBalances(members', expenses'))]_vars

\* C25: every iteration of the loop of simplify advances a cursor (both of
\* them when both remainders are at most eps), so that for every input the
\* loop ends within (number of debtors + number of creditors - 1)
\* iterations, none when there is no debtor or no creditor.
C25_LoopAdvances ==
  [][SimplifyIter =>
       /\ sst'.i >= sst.i /\ sst'.j >= sst.j
       /\ sst'.i + sst'.j > sst.i + sst.j
       /\ Leq(sst'.debtors[sst.i + 1].amt, eps) => sst'.i = sst.i + 1
       /\ Leq(sst'.creditors[sst.j + 1].amt, eps) => sst'.j = sst.j + 1
       /\ Len(sst'.txns) <=
            Max2(0, Len(sst.debtors) + Len(sst.creditors) - 1)]_vars

\* Every expense names only members, has an amount over 0 and an included
\* participant.
WellFormedInput ==
  /\ RefsExist(members, expenses)
  /\ \A n \in 1..Len(expenses) :
       Gt(expenses[n].amount, 0) /\ Included(expenses[n]) # <<>>

\* C24: on well-formed input calcBalances and simplify do not fail.  What
\* calcBalances returns has exactly the ids of the members for its keys and a
\* number, not NaN, for each; and simplify on it runs to its end: each of its
\* iterations so far has advanced a cursor.
C24_NeverFails ==
  WellFormedInput =>
    /\ CalcDone =>
         /\ {bal[k].id : k \in 1..Len(bal)} = MemberIds(members)
         /\ \A k \in 1..Len(bal) : ~IsNaN(bal[k].amt)
    /\ spc # "idle" => Len(sst.txns) <= sst.i + sst.j

\* C26: every transfer simplify returns has an amount over eps.  What is left
\* of a debt or of a credit when it is at most eps is dropped with its cursor
\* and is the amount of no transfer.
C26_TransfersOverEps ==
  SimplifyDone => \A n \in 1..Len(sst.txns) : Gt(sst.txns[n].amount, eps)

\* simplify has returned a transfer and has left a debt of at most eps unpaid.
C26_Witness ==
  /\ SimplifyDone
  /\ sst.txns # <<>>
  /\ \E k \in 1..Len(sst.debtors) :
       sst.debtors[k].amt > 0 /\ Leq(sst.debtors[k].amt, eps)

\* The members named by the transfers.
Payers(txns) == {txns[n].from : n \in 1..Len(txns)}
Payees(txns) == {txns[n].to : n \in 1..Len(txns)}

\* C27: simplify pays only from a balance below -eps to a balance above eps.
\* Every transfer it has made is from a member whose balance is below -eps to
\* a member whose balance is above eps, so that a member whose balance is
\* within eps of zero is the from or the to of no transfer.
C27_OnlyUnsettledMembers ==
  /\ \A n \in 1..Len(sst.txns) :
       /\ Lt(GetKey(balances, sst.txns[n].from), -eps)
       /\ Gt(GetKey(balances, sst.txns[n].to), eps)
  /\ \A k \in 1..Len(balances) :
       Leq(Abs(balances[k].amt), eps) =>
         balances[k].id \notin Payers(sst.txns) \cup Payees(sst.txns)

\* simplify has returned a transfer, and a member whose balance is within eps
\* of zero without being zero is in none.
C27_Witness ==
  /\ SimplifyDone
  /\ sst.txns # <<>>
  /\ \E k \in 1..Len(balances) :
       /\ balances[k].amt # 0
       /\ Leq(Abs(balances[k].amt), eps)
       /\ balances[k].id \notin Payers(sst.txns) \cup Payees(sst.txns)

\* The largest of the debts, and of the credits, of the balances b.
LargestDebt(b) ==
  CHOOSE x \in {-b[k].amt : k \in 1..Len(b)} :
    \A k \in 1..Len(b) : IsNaN(b[k].amt) \/ -b[k].amt <= x
LargestCredit(b) ==
  CHOOSE x \in {b[k].amt : k \in 1..Len(b)} :
    \A k \in 1..Len(b) : IsNaN(b[k].amt) \/ b[k].amt <= x

\* C28: debtors are served in descending order of debt and creditors in
\* descending order of credit.  Along the plan returned the debt of the from
\* member never increases and the credit of the to member never increases,
\* and the first transfer is from the largest debt to the largest credit.
C28_DescendingOrder ==
  (spc = "done" /\ sst.owes # <<>>) =>
    /\ \A n \in 1..(Len(sst.owes) - 1) :
         /\ GetKey(balances, sst.owes[n].from)
              <= GetKey(balances, sst.owes[n + 1].from)
         /\ GetKey(balances, sst.owes[n].to)
              >= GetKey(balances, sst.owes[n + 1].to)
    /\ -GetKey(balances, sst.owes[1].from) = LargestDebt(balances)
    /\ GetKey(balances, sst.owes[1].to) = LargestCredit(balances)

\* C29: in the plan simplify returns no pair (from, to) occurs twice, and no
\* member is the from of one transfer and the to of another or of the same
\* one.
C29_NoRepeatedPair ==
  SimplifyDone =>
    /\ \A m, n \in 1..Len(sst.txns) :
         (sst.txns[m].from = sst.txns[n].from /\ sst.txns[m].to = sst.txns[n].to)
           => m = n
    /\ Payers(sst.txns) \cap Payees(sst.txns) = {}

\* simplify has returned three transfers, two of them from the same member
\* and two of them to the same member.
C29_Witness ==
  /\ SimplifyDone
  /\ Len(sst.txns) = 3
  /\ \E m, n \in 1..3 : m # n /\ sst.txns[m].from = sst.txns[n].from
  /\ \E m, n \in 1..3 : m # n /\ sst.txns[m].to = sst.txns[n].to

\* C30: the save of the initial empty state loses no stored data.  When the
\* app started with a stored snapshot and its effects have all run, however
\* many times the mount effects ran, the members and expenses in memory are
\* those of the snapshot and the store holds the snapshot.
C30_SnapshotSurvives ==
  (store.mounted.has /\ store.todo = <<>> /\ ~store.queued.has) =>
    /\ members = store.mounted.members
    /\ expenses = store.mounted.expenses
    /\ store.items = store.mounted

============================================================================
